---- MODULE Spec2Model ----
(***************************************************************************)
(* Model of the SSTF I/O scheduler, sstf-iosched.c (Linux 4.13 single-queue *)
(* elevator).  The state is struct sstf_data (the pending list and          *)
(* head_position), the host queue's elevator pointer and queue_lock, the    *)
(* requests the host has created, and the position of each host context     *)
(* inside the handler it is running.  Every handler is translated statement *)
(* by statement; the host block layer, which is not part of the module, is  *)
(* modelled only as far as it calls the handlers: it holds queue_lock       *)
(* around add, dispatch and merge, and calls init and exit without it.      *)
(***************************************************************************)
EXTENDS Integers, Sequences, FiniteSets, TLC

(* ------------------------------ bounds --------------------------------- *)

\* Width of sector_t in the model (the kernel's is 32 or 64 bits).
SectorBits == 3

\* Number of requests the host creates in one run.
MaxReq == 3

RECURSIVE Pow2(_)
Pow2(n) == IF n = 0 THEN 1 ELSE 2 * Pow2(n - 1)

\* sector_t values are 0 .. SectorMod-1; arithmetic on them is modulo SectorMod.
SectorMod == Pow2(SectorBits)
SectorHalf == Pow2(SectorBits - 1)
Sectors == 0 .. (SectorMod - 1)

\* The sectors requests are submitted for: both ends of the address space and
\* the sectors next to its middle, where the signed reading of a difference
\* changes sign.  1, SectorHalf and SectorMod-1 are evenly spaced.
Locations == {0, 1, SectorHalf - 1, SectorHalf, SectorMod - 1}

\* Host execution contexts that may enter the scheduler (a submission path
\* and a device-ready path).
Ctx == {"submit", "ready"}

Handles == 1 .. MaxReq
NULL == 0

VARIABLES
  elevator,       \* q->elevator: "none", "sstf" (bound), "exit" (being torn down)
  eq,             \* the elevator_queue of sstf_init_queue: "none" or "alloc"
  nd,             \* struct sstf_data: "none", "raw" (kmalloc'ed), "ready", "freed"
  queue,          \* nd->queue, the pending list, in list order
  head_position,  \* nd->head_position
  queue_lock,     \* q->queue_lock: "free" or the context holding it
  pc,             \* per context: the statement it is about to execute
  rq,             \* per context: the handler's rq (add, dispatch, merge)
  next,           \* per context: sstf_merged_requests' next
  ret,            \* per context: what its last handler returned
  nreq,           \* requests created by the host so far (handles 1..nreq)
  pos,            \* blk_rq_pos of every handle
  dispatched,     \* handles given to elv_dispatch_sort, in order
  merged          \* history: handles that sstf_merged_requests has unlinked

vars == <<elevator, eq, nd, queue, head_position, queue_lock, pc, rq, next,
          ret, nreq, pos, dispatched, merged>>

(* ----------------------------- list helpers ---------------------------- *)

Range(s) == {s[i] : i \in 1 .. Len(s)}

\* Index of h in list s (0 when h is not linked into s).
IndexOf(s, h) == IF h \in Range(s) THEN CHOOSE i \in 1 .. Len(s) : s[i] = h ELSE 0

\* list_del_init(&h->queuelist): unlink h from the list it is on.  A handle
\* that is on no list has a self-linked list_head, for which the unlink
\* changes nothing.
list_del_init(s, h) == SelectSeq(s, LAMBDA x : x # h)

\* Mutant: list_add, which links the entry in at the front of the list.
list_add(s, h) == <<h>> \o s

\* list_add_tail(&h->queuelist, &nd->queue)
list_add_tail(s, h) == Append(s, h)

list_empty(s) == s = <<>>

(* ------------------------ sstf_find_next_request ----------------------- *)

\* blk_rq_pos(rq) - nd->head_position: subtraction of two sector_t values,
\* which are unsigned, so the difference wraps modulo SectorMod.
sector_sub(a, b) == (a - b + SectorMod) % SectorMod

\* The kernel's abs() on an unsigned argument: the value is first converted
\* to the signed type of the same width, negated when negative, and the
\* result is stored back into a sector_t.  For the most negative value the
\* negation wraps (the kernel is built with -fno-strict-overflow) and the
\* stored result is SectorHalf.
sector_abs(x) == IF x >= SectorHalf THEN SectorMod - x ELSE x

\* sector_t distance = abs(blk_rq_pos(rq) - nd->head_position)
sstf_distance(p, h) == sector_abs(sector_sub(p, h))

\* sector_t min_distance = -1: the all-ones sector_t value.
MinDistanceUnset == SectorMod - 1

\* Mutant: the comparison turned round, so the farthest request is kept.
sstf_closer_farthest(distance, min_distance) ==
  min_distance = MinDistanceUnset \/ distance > min_distance

\* Mutant: an entry at an equal distance also replaces the candidate.
sstf_closer_or_equal(distance, min_distance) ==
  min_distance = MinDistanceUnset \/ distance <= min_distance

\* The test under which the loop records rq as the new candidate.
sstf_closer(distance, min_distance) ==
  min_distance = MinDistanceUnset \/ distance < min_distance

\* The list_for_each_entry loop from entry i on, with the loop's locals.
RECURSIVE sstf_scan(_, _, _, _, _)
sstf_scan(s, i, h, min_distance, next_rq) ==
  IF i > Len(s) THEN next_rq
  ELSE LET distance == sstf_distance(pos[s[i]], h) IN
       IF sstf_closer(distance, min_distance)
       THEN sstf_scan(s, i + 1, h, distance, s[i])
       ELSE sstf_scan(s, i + 1, h, min_distance, next_rq)

\* Mutant: the pass starts at the second entry of the list.
sstf_find_next_request_skips_first(s, h) ==
  sstf_scan(s, 2, h, MinDistanceUnset, NULL)

\* sstf_find_next_request(nd): the candidate left after one pass, NULL for
\* an empty list.
sstf_find_next_request(s, h) == sstf_scan(s, 1, h, MinDistanceUnset, NULL)

(* -------------------------------- state -------------------------------- *)

Idle == \A c \in Ctx : pc[c] = "idle"

TypeOK ==
  /\ elevator \in {"none", "sstf", "exit"}
  /\ eq \in {"none", "alloc"}
  /\ nd \in {"none", "raw", "ready", "freed"}
  /\ queue \in Seq(Handles)
  /\ head_position \in Sectors
  /\ queue_lock \in Ctx \cup {"free"}
  /\ pc \in [Ctx -> {"idle", "init", "init_nd", "init_list", "init_head",
                     "init_lock", "init_set", "init_unlock", "add", "merge",
                     "dispatch", "dsp_del", "dsp_sort", "dsp_head", "unlock",
                     "return", "exit", "kfree", "BUG", "spin_dispatch"}]
  /\ rq \in [Ctx -> Handles \cup {NULL}]
  /\ next \in [Ctx -> Handles \cup {NULL}]
  /\ ret \in [Ctx -> {"none", "void", "0", "1", "-ENOMEM"}]
  /\ nreq \in 0 .. MaxReq
  /\ pos \in [Handles -> Sectors]
  /\ dispatched \in Seq(Handles)
  /\ merged \subseteq Handles

\* The module is registered and no queue uses it yet.
Init ==
  /\ elevator = "none"
  /\ eq = "none"
  /\ nd = "none"
  /\ queue = <<>>
  /\ head_position = 0
  /\ queue_lock = "free"
  /\ pc = [c \in Ctx |-> "idle"]
  /\ rq = [c \in Ctx |-> NULL]
  /\ next = [c \in Ctx |-> NULL]
  /\ ret = [c \in Ctx |-> "none"]
  /\ nreq = 0
  /\ pos = [h \in Handles |-> 0]
  /\ dispatched = <<>>
  /\ merged = {}

(* --------------------------- sstf_init_queue --------------------------- *)

\* The host attaches the policy to a queue: it calls elevator_init_fn, without
\* queue_lock, while nothing else runs on that queue.
HostInit(c) ==
  /\ Idle /\ elevator = "none" /\ nd = "none"
  /\ pc' = [pc EXCEPT ![c] = "init"]
  /\ UNCHANGED <<elevator, eq, nd, queue, head_position, queue_lock, rq, next,
                 ret, nreq, pos, dispatched, merged>>

\* eq = elevator_alloc(q, e); if (!eq) return -ENOMEM;
init_alloc_eq(c) ==
  /\ pc[c] = "init"
  /\ \/ /\ eq' = "alloc"
        /\ pc' = [pc EXCEPT ![c] = "init_nd"]
        /\ ret' = ret
     \/ /\ eq' = eq
        /\ pc' = [pc EXCEPT ![c] = "return"]
        /\ ret' = [ret EXCEPT ![c] = "-ENOMEM"]
  /\ UNCHANGED <<merged, elevator, nd, queue, head_position, queue_lock, rq, next,
                 nreq, pos, dispatched>>

\* Mutant: the failure path returns without kobject_put(&eq->kobj).
init_alloc_nd_leaks(c) ==
  /\ pc[c] = "init_nd"
  /\ \/ /\ nd' = "raw"
        /\ head_position' \in Sectors
        /\ pc' = [pc EXCEPT ![c] = "init_list"]
        /\ ret' = ret
     \/ /\ nd' = nd
        /\ head_position' = head_position
        /\ pc' = [pc EXCEPT ![c] = "return"]
        /\ ret' = [ret EXCEPT ![c] = "-ENOMEM"]
  /\ UNCHANGED <<elevator, eq, queue, queue_lock, rq, next, nreq, pos,
                 dispatched, merged>>

\* nd = kmalloc_node(...); if (!nd) { kobject_put(&eq->kobj); return -ENOMEM; }
\* kmalloc does not clear the memory: head_position starts as any value.
init_alloc_nd(c) ==
  /\ pc[c] = "init_nd"
  /\ \/ /\ nd' = "raw"
        /\ head_position' \in Sectors
        /\ eq' = eq
        /\ pc' = [pc EXCEPT ![c] = "init_list"]
        /\ ret' = ret
     \/ /\ nd' = nd
        /\ head_position' = head_position
        /\ eq' = "none"
        /\ pc' = [pc EXCEPT ![c] = "return"]
        /\ ret' = [ret EXCEPT ![c] = "-ENOMEM"]
  /\ UNCHANGED <<merged, elevator, queue, queue_lock, rq, next, nreq, pos, dispatched>>

\* Mutant: q->elevator is set before the state is initialised.
init_list_head_publishes(c) ==
  /\ pc[c] = "init_list"
  /\ queue' = <<>>
  /\ elevator' = "sstf"
  /\ pc' = [pc EXCEPT ![c] = "init_head"]
  /\ UNCHANGED <<merged, eq, nd, head_position, queue_lock, rq, next, ret, nreq, pos,
                 dispatched>>

\* eq->elevator_data = nd; INIT_LIST_HEAD(&nd->queue);
init_list_head(c) ==
  /\ pc[c] = "init_list"
  /\ queue' = <<>>
  /\ pc' = [pc EXCEPT ![c] = "init_head"]
  /\ UNCHANGED <<merged, elevator, eq, nd, head_position, queue_lock, rq, next, ret,
                 nreq, pos, dispatched>>

\* Mutant: head_position keeps whatever the allocation left in it.
init_head_position_unset(c) ==
  /\ pc[c] = "init_head"
  /\ nd' = "ready"
  /\ pc' = [pc EXCEPT ![c] = "init_lock"]
  /\ UNCHANGED <<elevator, eq, queue, head_position, queue_lock, rq, next, ret,
                 nreq, pos, dispatched, merged>>

\* nd->head_position = 0;
init_head_position(c) ==
  /\ pc[c] = "init_head"
  /\ head_position' = 0
  /\ nd' = "ready"
  /\ pc' = [pc EXCEPT ![c] = "init_lock"]
  /\ UNCHANGED <<merged, elevator, eq, queue, queue_lock, rq, next, ret, nreq, pos,
                 dispatched>>

\* spin_lock_irq(q->queue_lock);
init_spin_lock(c) ==
  /\ pc[c] = "init_lock"
  /\ queue_lock = "free"
  /\ queue_lock' = c
  /\ pc' = [pc EXCEPT ![c] = "init_set"]
  /\ UNCHANGED <<merged, elevator, eq, nd, queue, head_position, rq, next, ret, nreq,
                 pos, dispatched>>

\* q->elevator = eq;
init_set_elevator(c) ==
  /\ pc[c] = "init_set"
  /\ elevator' = "sstf"
  /\ pc' = [pc EXCEPT ![c] = "init_unlock"]
  /\ UNCHANGED <<merged, eq, nd, queue, head_position, queue_lock, rq, next, ret, nreq,
                 pos, dispatched>>

\* spin_unlock_irq(q->queue_lock); return 0;
init_spin_unlock(c) ==
  /\ pc[c] = "init_unlock"
  /\ queue_lock' = "free"
  /\ ret' = [ret EXCEPT ![c] = "0"]
  /\ pc' = [pc EXCEPT ![c] = "return"]
  /\ UNCHANGED <<merged, elevator, eq, nd, queue, head_position, rq, next, nreq, pos,
                 dispatched>>

sstf_init_queue(c) ==
  \/ init_alloc_eq(c)
  \/ init_alloc_nd(c)
  \/ init_list_head(c)
  \/ init_head_position(c)
  \/ init_spin_lock(c)
  \/ init_set_elevator(c)
  \/ init_spin_unlock(c)

(* ------------------------- the host's call sites ------------------------ *)

\* The host block layer enters add, dispatch and merge with q->queue_lock
\* held: spin_lock_irq(q->queue_lock) in the host.
HostLock(c) ==
  /\ queue_lock = "free"
  /\ queue_lock' = c

\* The host takes the return value of a handler it entered with queue_lock
\* held and drops the lock; the handler's locals are gone.
HostUnlock(c) ==
  /\ pc[c] = "unlock"
  /\ queue_lock' = "free"
  /\ pc' = [pc EXCEPT ![c] = "idle"]
  /\ rq' = [rq EXCEPT ![c] = NULL]
  /\ next' = [next EXCEPT ![c] = NULL]
  /\ ret' = [ret EXCEPT ![c] = "none"]
  /\ UNCHANGED <<merged, elevator, eq, nd, queue, head_position, nreq, pos, dispatched>>

\* The host takes the return value of init or exit.
HostReturn(c) ==
  /\ pc[c] = "return"
  /\ pc' = [pc EXCEPT ![c] = "idle"]
  /\ ret' = [ret EXCEPT ![c] = "none"]
  /\ UNCHANGED <<merged, elevator, eq, nd, queue, head_position, queue_lock, rq, next,
                 nreq, pos, dispatched>>

\* A context submits a new request for sector loc on a queue whose elevator
\* pointer is set: holding the lock, the host initialises the request and
\* calls elevator_add_req_fn.
HostAdd(c, loc) ==
  /\ pc[c] = "idle"
  /\ elevator = "sstf"
  /\ HostLock(c)
  /\ nreq < MaxReq
  /\ nreq' = nreq + 1
  /\ pos' = [pos EXCEPT ![nreq + 1] = loc]
  /\ rq' = [rq EXCEPT ![c] = nreq + 1]
  /\ pc' = [pc EXCEPT ![c] = "add"]
  /\ UNCHANGED <<merged, elevator, eq, nd, queue, head_position, next, ret, dispatched>>

\* Requests never stop arriving: once the host has used all its request
\* structures, it submits a new request in the structure h of a request the
\* device has completed, for sector loc; h leaves the record of hand-overs.
HostAddAgain(c, h, loc) ==
  /\ pc[c] = "idle"
  /\ elevator = "sstf"
  /\ HostLock(c)
  /\ nreq = MaxReq
  /\ h \in Range(dispatched)
  /\ dispatched' = list_del_init(dispatched, h)
  /\ pos' = [pos EXCEPT ![h] = loc]
  /\ rq' = [rq EXCEPT ![c] = h]
  /\ pc' = [pc EXCEPT ![c] = "add"]
  /\ UNCHANGED <<merged, elevator, eq, nd, queue, head_position, next, ret, nreq>>

\* A context finds the device ready for work and goes to run the queue; it
\* waits for queue_lock.  (The wait is a state of its own here, so that two
\* dispatch calls in progress at once are a state of the model.)
HostRun(c) ==
  /\ pc[c] = "idle"
  /\ elevator = "sstf"
  /\ pc' = [pc EXCEPT ![c] = "spin_dispatch"]
  /\ UNCHANGED <<elevator, eq, nd, queue, head_position, queue_lock, rq, next,
                 ret, nreq, pos, dispatched, merged>>

\* With the lock taken the host calls elevator_dispatch_fn.
HostDispatch(c) ==
  /\ pc[c] = "spin_dispatch"
  /\ HostLock(c)
  /\ pc' = [pc EXCEPT ![c] = "dispatch"]
  /\ UNCHANGED <<merged, elevator, eq, nd, queue, head_position, rq, next, ret, nreq,
                 pos, dispatched>>

\* Holding the lock, the host coalesces request a into request s and calls
\* elevator_merge_req_fn.  s is pending; a is any other request the host has
\* initialised (the host is expected to pass a pending one, and nothing in
\* the handler checks it).
HostMerge(c, s, a) ==
  /\ pc[c] = "idle"
  /\ elevator = "sstf"
  /\ HostLock(c)
  /\ s \in Range(queue)
  /\ a \in (1 .. nreq) \ {s}
  /\ rq' = [rq EXCEPT ![c] = s]
  /\ next' = [next EXCEPT ![c] = a]
  /\ pc' = [pc EXCEPT ![c] = "merge"]
  /\ UNCHANGED <<merged, elevator, eq, nd, queue, head_position, ret, nreq, pos,
                 dispatched>>

\* The host tears the queue down: it unbinds the elevator once no context is
\* inside a handler, and calls elevator_exit_fn without queue_lock.
HostExit(c) ==
  /\ Idle /\ elevator = "sstf" /\ queue_lock = "free"
  /\ elevator' = "exit"
  /\ pc' = [pc EXCEPT ![c] = "exit"]
  /\ UNCHANGED <<merged, eq, nd, queue, head_position, queue_lock, rq, next, ret, nreq,
                 pos, dispatched>>

(* ------------------------- sstf_merged_requests ------------------------ *)

\* Mutant: the surviving request is unlinked instead of the absorbed one.
sstf_merged_requests_unlinks_rq(c) ==
  /\ pc[c] = "merge"
  /\ queue' = list_del_init(queue, rq[c])
  /\ ret' = [ret EXCEPT ![c] = "void"]
  /\ pc' = [pc EXCEPT ![c] = "unlock"]
  /\ merged' = merged \cup (Range(queue) \ Range(queue'))
  /\ UNCHANGED <<elevator, eq, nd, head_position, queue_lock, rq, next, nreq,
                 pos, dispatched>>

\* list_del_init(&next->queuelist);
sstf_merged_requests(c) ==
  /\ pc[c] = "merge"
  /\ queue' = list_del_init(queue, next[c])
  /\ ret' = [ret EXCEPT ![c] = "void"]
  /\ pc' = [pc EXCEPT ![c] = "unlock"]
  /\ merged' = merged \cup (Range(queue) \ Range(queue'))
  /\ UNCHANGED <<elevator, eq, nd, head_position, queue_lock, rq, next, nreq,
                 pos, dispatched>>

(* --------------------------- sstf_add_request -------------------------- *)

\* Mutant: add also moves the head to the request it accepts.
sstf_add_request_moves_head(c) ==
  /\ pc[c] = "add"
  /\ queue' = list_add_tail(queue, rq[c])
  /\ head_position' = pos[rq[c]]
  /\ ret' = [ret EXCEPT ![c] = "void"]
  /\ pc' = [pc EXCEPT ![c] = "unlock"]
  /\ UNCHANGED <<merged, elevator, eq, nd, queue_lock, rq, next, nreq, pos, dispatched>>

\* Mutant: add returns without linking the request into the queue.
sstf_add_request_drops(c) ==
  /\ pc[c] = "add"
  /\ ret' = [ret EXCEPT ![c] = "void"]
  /\ pc' = [pc EXCEPT ![c] = "unlock"]
  /\ UNCHANGED <<elevator, eq, nd, queue, head_position, queue_lock, rq, next,
                 nreq, pos, dispatched, merged>>

\* list_add_tail(&rq->queuelist, &nd->queue);
sstf_add_request(c) ==
  /\ pc[c] = "add"
  /\ queue' = list_add_tail(queue, rq[c])
  /\ ret' = [ret EXCEPT ![c] = "void"]
  /\ pc' = [pc EXCEPT ![c] = "unlock"]
  /\ UNCHANGED <<merged, elevator, eq, nd, head_position, queue_lock, rq, next, nreq,
                 pos, dispatched>>

(* ----------------------------- sstf_dispatch --------------------------- *)

\* Mutant: an idle dispatch rewinds the head to sector 0.
dispatch_find_rewinds(c) ==
  /\ pc[c] = "dispatch"
  /\ LET found == sstf_find_next_request(queue, head_position) IN
       /\ rq' = [rq EXCEPT ![c] = found]
       /\ IF found # NULL
          THEN /\ pc' = [pc EXCEPT ![c] = "dsp_del"]
               /\ ret' = ret
               /\ head_position' = head_position
          ELSE /\ pc' = [pc EXCEPT ![c] = "unlock"]
               /\ ret' = [ret EXCEPT ![c] = "0"]
               /\ head_position' = 0
  /\ UNCHANGED <<merged, elevator, eq, nd, queue, queue_lock, next, nreq, pos,
                 dispatched>>

\* rq = sstf_find_next_request(nd); if (rq) ... ; return 0;
dispatch_find(c) ==
  /\ pc[c] = "dispatch"
  /\ LET found == sstf_find_next_request(queue, head_position) IN
       /\ rq' = [rq EXCEPT ![c] = found]
       /\ IF found # NULL
          THEN /\ pc' = [pc EXCEPT ![c] = "dsp_del"]
               /\ ret' = ret
          ELSE /\ pc' = [pc EXCEPT ![c] = "unlock"]
               /\ ret' = [ret EXCEPT ![c] = "0"]
  /\ UNCHANGED <<merged, elevator, eq, nd, queue, head_position, queue_lock, next, nreq,
                 pos, dispatched>>

\* Mutant: the chosen request is left on the pending list.
dispatch_del_keeps(c) ==
  /\ pc[c] = "dsp_del"
  /\ pc' = [pc EXCEPT ![c] = "dsp_sort"]
  /\ UNCHANGED <<elevator, eq, nd, queue, head_position, queue_lock, rq, next,
                 ret, nreq, pos, dispatched, merged>>

\* Mutant: INIT_LIST_HEAD on the queue, which unlinks every pending request.
dispatch_del_reinit(c) ==
  /\ pc[c] = "dsp_del"
  /\ queue' = <<>>
  /\ pc' = [pc EXCEPT ![c] = "dsp_sort"]
  /\ UNCHANGED <<elevator, eq, nd, head_position, queue_lock, rq, next, ret,
                 nreq, pos, dispatched, merged>>

\* list_del_init(&rq->queuelist);
dispatch_del(c) ==
  /\ pc[c] = "dsp_del"
  /\ queue' = list_del_init(queue, rq[c])
  /\ pc' = [pc EXCEPT ![c] = "dsp_sort"]
  /\ UNCHANGED <<merged, elevator, eq, nd, head_position, queue_lock, rq, next, ret,
                 nreq, pos, dispatched>>

\* Mutant: the request is unlinked but never handed to the host.
dispatch_sort_drops(c) ==
  /\ pc[c] = "dsp_sort"
  /\ pc' = [pc EXCEPT ![c] = "dsp_head"]
  /\ UNCHANGED <<elevator, eq, nd, queue, head_position, queue_lock, rq, next,
                 ret, nreq, pos, dispatched, merged>>

\* elv_dispatch_sort(q, rq): the request is handed to the host's dispatch list.
dispatch_sort(c) ==
  /\ pc[c] = "dsp_sort"
  /\ dispatched' = Append(dispatched, rq[c])
  /\ pc' = [pc EXCEPT ![c] = "dsp_head"]
  /\ UNCHANGED <<merged, elevator, eq, nd, queue, head_position, queue_lock, rq, next,
                 ret, nreq, pos>>

\* nd->head_position = blk_rq_pos(rq); return 1;
dispatch_head(c) ==
  /\ pc[c] = "dsp_head"
  /\ head_position' = pos[rq[c]]
  /\ ret' = [ret EXCEPT ![c] = "1"]
  /\ pc' = [pc EXCEPT ![c] = "unlock"]
  /\ UNCHANGED <<merged, elevator, eq, nd, queue, queue_lock, rq, next, nreq, pos,
                 dispatched>>

sstf_dispatch(c) ==
  \/ dispatch_find(c)
  \/ dispatch_del(c)
  \/ dispatch_sort(c)
  \/ dispatch_head(c)

(* --------------------------- sstf_exit_queue --------------------------- *)

\* Mutant: the check is left out and the state is released in any case.
exit_bug_on_unchecked(c) ==
  /\ pc[c] = "exit"
  /\ pc' = [pc EXCEPT ![c] = "kfree"]
  /\ UNCHANGED <<elevator, eq, nd, queue, head_position, queue_lock, rq, next,
                 ret, nreq, pos, dispatched, merged>>

\* BUG_ON(!list_empty(&nd->queue)): the calling context stops for good.
exit_bug_on(c) ==
  /\ pc[c] = "exit"
  /\ pc' = [pc EXCEPT ![c] = IF ~list_empty(queue) THEN "BUG" ELSE "kfree"]
  /\ UNCHANGED <<elevator, eq, nd, queue, head_position, queue_lock, rq, next,
                 ret, nreq, pos, dispatched, merged>>

\* kfree(nd);
exit_kfree(c) ==
  /\ pc[c] = "kfree"
  /\ nd' = "freed"
  /\ ret' = [ret EXCEPT ![c] = "void"]
  /\ pc' = [pc EXCEPT ![c] = "return"]
  /\ UNCHANGED <<merged, elevator, eq, queue, head_position, queue_lock, rq, next, nreq,
                 pos, dispatched>>

sstf_exit_queue(c) ==
  \/ exit_bug_on(c)
  \/ exit_kfree(c)

(* ----------------------------- specification --------------------------- *)

Next ==
  \E c \in Ctx :
    \/ HostInit(c)
    \/ sstf_init_queue(c)
    \/ \E loc \in Locations : HostAdd(c, loc)
    \/ sstf_add_request(c)
    \/ HostRun(c)
    \/ HostDispatch(c)
    \/ sstf_dispatch(c)
    \/ \E s, a \in Handles : HostMerge(c, s, a)
    \/ sstf_merged_requests(c)
    \/ HostUnlock(c)
    \/ HostReturn(c)
    \/ HostExit(c)
    \/ sstf_exit_queue(c)

Spec == Init /\ [][Next]_vars

(* ============================== properties ============================= *)

\* |a - b| over the integers: the seek distance the specification speaks of.
AbsDiff(a, b) == IF a >= b THEN a - b ELSE b - a

Last(s) == s[Len(s)]

NoDuplicates(s) == \A i, j \in 1 .. Len(s) : i # j => s[i] # s[j]

\* A context has handed its request to the host and not yet moved the head:
\* head_position is still the head of before this dispatch, and queue holds
\* the requests that were pending beside the chosen one.
Handed(c) == pc[c] = "dsp_head"

(* C1: whenever dispatch runs on a non-empty queue, the request it removes
   and hands to the dispatch sink is at a distance |target_location -
   head_position| from the head of before the dispatch that is less than or
   equal to the distance of every other request pending at that moment. *)
C1_DispatchTakesNearest ==
  \A c \in Ctx :
    Handed(c) =>
      /\ rq[c] = Last(dispatched)
      /\ rq[c] \notin Range(queue)
      /\ \A h \in Range(queue) :
           AbsDiff(pos[rq[c]], head_position) <= AbsDiff(pos[h], head_position)

\* The pending requests at the least true distance from sector h.
Nearest(s, h) ==
  {x \in Range(s) :
     \A y \in Range(s) : AbsDiff(pos[x], h) <= AbsDiff(pos[y], h)}

(* C2: whenever two or more pending requests are at the same minimum
   distance from head_position, dispatch selects the one of them that was
   added earliest (first in queue order); a later-added equidistant request
   is never chosen ahead of an earlier-added one. *)
C2_TieBreakEarliestAdded ==
  \A c \in Ctx :
    (pc[c] = "dsp_del" /\ Cardinality(Nearest(queue, head_position)) >= 2) =>
      /\ rq[c] \in Nearest(queue, head_position)
      /\ \A h \in Nearest(queue, head_position) :
           IndexOf(queue, rq[c]) <= IndexOf(queue, h)

\* No difference among the head and the given requests exceeds SectorHalf:
\* the distance the scheduler computes is then the true one.
NoWrap(hs, h) ==
  /\ \A x \in hs : AbsDiff(pos[x], h) <= SectorHalf
  /\ \A x, y \in hs : AbsDiff(pos[x], pos[y]) <= SectorHalf

(* C3 as claimed: while the queue is drained by successive dispatches with
   no add or merge in between, the seek distances of successive dispatches,
   each measured from the head position at the time of that dispatch, are
   non-decreasing.  Stated at the moment a request has been handed over:
   the dispatch that follows, if the queue is left alone, takes
   sstf_find_next_request from the new head.  Only states free of
   wrap-around are constrained. *)
C3_SeekDistancesNonDecreasing ==
  \A c \in Ctx :
    (Handed(c) /\ queue # <<>> /\ NoWrap(Range(queue) \cup {rq[c]}, head_position)) =>
      LET following == sstf_find_next_request(queue, pos[rq[c]]) IN
        AbsDiff(pos[rq[c]], head_position) <= AbsDiff(pos[following], pos[rq[c]])

(* C3 as amended: the seek distance of each dispatch, as the scheduler
   computes it, is less than or equal to the distance from that same head
   position of every request still pending, hence of every request a drain
   dispatches after it. *)
C3_NoLaterRequestWasNearer ==
  \A c \in Ctx :
    Handed(c) =>
      \A h \in Range(queue) :
        sstf_distance(pos[rq[c]], head_position) <= sstf_distance(pos[h], head_position)

\* A drain in progress: a request handed over with two or more left pending.
C3_Witness ==
  \E c \in Ctx :
    /\ Handed(c) /\ queue # <<>> /\ Len(dispatched) >= 2
    /\ pos[rq[c]] # head_position
    /\ \A h \in Range(queue) : pos[h] # pos[rq[c]]

\* The requests whose dispatch has completed: those handed over, less the one
\* of a dispatch that has not yet moved the head.
Completed ==
  IF \E c \in Ctx : Handed(c)
  THEN SubSeq(dispatched, 1, Len(dispatched) - 1)
  ELSE dispatched

(* C4: once the scheduler state is initialised, head_position equals the
   target_location of the most recently completed dispatch, or 0 if there
   has been none since init; and head_position is written only by the last
   step of a dispatch that returns 1, never by add, merge_adjacent or a
   dispatch that returns 0. *)
C4_HeadIsLastDispatched ==
  /\ [](nd = "ready" =>
          head_position = IF Completed = <<>> THEN 0 ELSE pos[Last(Completed)])
  /\ [][(nd = "ready" /\ head_position' # head_position) =>
          \E c \in Ctx : /\ Handed(c)
                         /\ ret'[c] = "1"
                         /\ head_position' = pos[Last(dispatched)]]_vars

\* The head has moved off sector 0 and back by two completed dispatches.
C4_Witness ==
  /\ Idle /\ nd = "ready" /\ Len(dispatched) >= 2
  /\ head_position # pos[dispatched[1]]
  /\ queue # <<>>

(* C5: a dispatch on an empty queue returns 0, hands nothing to the sink and
   leaves head_position and the queue as they were, every time. *)
C5_IdleDispatch ==
  [][\A c \in Ctx :
       (pc[c] = "dispatch" /\ queue = <<>> /\ pc'[c] # "dispatch") =>
         /\ ret'[c] = "0"
         /\ pc'[c] = "unlock"
         /\ queue' = queue
         /\ head_position' = head_position
         /\ dispatched' = dispatched]_vars

\* An idle dispatch has returned 0 with the head away from sector 0.
C5_Witness ==
  \E c \in Ctx :
    /\ pc[c] = "unlock" /\ ret[c] = "0"
    /\ queue = <<>> /\ head_position # 0 /\ dispatched # <<>>

(* C6: merge_adjacent(surviving, absorbed) called with absorbed in the queue
   removes exactly absorbed: the queue gets shorter by one, surviving stays
   in it, and the requests left keep their relative order. *)
C6_MergeRemovesAbsorbed ==
  [][\A c \in Ctx :
       (pc[c] = "merge" /\ next[c] \in Range(queue) /\ pc'[c] # "merge") =>
         /\ Len(queue') = Len(queue) - 1
         /\ Range(queue') = Range(queue) \ {next[c]}
         /\ rq[c] \in Range(queue')
         /\ \A i, j \in 1 .. Len(queue') :
              i < j => IndexOf(queue, queue'[i]) < IndexOf(queue, queue'[j])]_vars

\* A merge has removed a request from between two others.
C6_Witness ==
  \E c \in Ctx :
    /\ pc[c] = "unlock" /\ next[c] # NULL
    /\ Len(queue) = 2
    /\ queue[1] < next[c] /\ next[c] < queue[2]

(* C7: teardown with a non-empty queue ends in a fatal fault and never
   releases the state; teardown with an empty queue releases the state
   without a fault. *)
C7_TeardownFaultsOnPending ==
  /\ \A c \in Ctx : pc[c] = "BUG" => (queue # <<>> /\ nd = "ready")
  /\ \A c \in Ctx : pc[c] = "kfree" => (queue = <<>> /\ nd = "ready")
  /\ nd = "freed" => (queue = <<>> /\ \A c \in Ctx : pc[c] # "BUG")
  /\ (elevator = "exit" /\ \A c \in Ctx : pc[c] \in {"idle", "return"}) =>
       (nd = "freed" /\ queue = <<>>)

\* Teardown was called with requests pending and has faulted.
C7_Witness ==
  \E c \in Ctx : pc[c] = "BUG" /\ Len(queue) >= 2 /\ dispatched # <<>>

(* C8: merge_adjacent called with an absorbed handle that is not in the
   queue ends in an unrecoverable fault: the call never returns normally
   to a scheduler that goes on operating. *)
C8_MergeOfNonMemberFaults ==
  [][\A c \in Ctx :
       (pc[c] = "merge" /\ next[c] \notin Range(queue)) => pc'[c] # "unlock"]_vars

\* The statements of sstf_dispatch from the choice of rq to the head update.
InDispatch(c) == pc[c] \in {"dsp_del", "dsp_sort", "dsp_head"}

(* C9: when dispatch calls of several contexts are in progress at once on
   one scheduler state, every pending handle is removed from the queue and
   handed to the dispatch sink by exactly one of them: no handle is handed
   over twice, none is handed over and still pending, and once no dispatch
   is in progress head_position is the target of the dispatch that
   completed last. *)
C9_DispatchedExactlyOnce ==
  /\ NoDuplicates(dispatched)
  /\ Range(dispatched) \cap Range(queue) = {}
  /\ \A c \in Ctx :
       /\ pc[c] = "dsp_del" => (rq[c] \in Range(queue) /\ rq[c] \notin Range(dispatched))
       /\ pc[c] = "dsp_sort" => (rq[c] \notin Range(queue) /\ rq[c] \notin Range(dispatched))
       /\ pc[c] = "dsp_head" => (rq[c] \notin Range(queue) /\ rq[c] = Last(dispatched))
  /\ \A c, d \in Ctx : (c # d /\ InDispatch(c)) => ~InDispatch(d)
  /\ (nd = "ready" /\ dispatched # <<>> /\ \A c \in Ctx : ~InDispatch(c)) =>
       head_position = pos[Last(dispatched)]

\* One context is inside a dispatch that follows an earlier one, holding a
\* request, while the other has called dispatch too and waits, with a
\* request left for it.
C9_Witness ==
  \E c, d \in Ctx :
    /\ c # d
    /\ pc[c] = "dsp_sort" /\ pc[d] = "spin_dispatch"
    /\ dispatched # <<>> /\ queue # <<>>

\* Statements about to read or write head_position or the pending list.
AccessPcs ==
  {"init_list", "init_head", "add", "merge", "dispatch", "dsp_del", "dsp_head",
   "exit"}

\* A context that has yet to make the last access of the handler it is in.
Accessing(c) == pc[c] \in AccessPcs \cup {"dsp_sort"}

(* C10 as claimed: every read and write of head_position and of the queue,
   in add, dispatch, merge_adjacent, init and teardown, happens with the
   one lock of that state held, and no two operations are at once between
   their first and last access. *)
C10_AllAccessUnderLock ==
  /\ \A c \in Ctx : pc[c] \in AccessPcs => queue_lock = c
  /\ \A c, d \in Ctx : (c # d /\ Accessing(c)) => ~Accessing(d)

(* C10 as amended: add, dispatch and merge_adjacent access head_position
   and the queue only with queue_lock held; init writes them without the
   lock, before the state is bound to the host queue, and takes the lock
   only to bind it; teardown reads the queue without the lock, after the
   host has unbound the state; and no two operations are at once between
   their first and last access. *)
C10_SerializedAccess ==
  /\ \A c \in Ctx :
       /\ (pc[c] \in {"add", "merge", "dispatch"} \/ InDispatch(c)) => queue_lock = c
       /\ pc[c] \in {"init_list", "init_head"} => (elevator = "none" /\ queue_lock = "free")
       /\ pc[c] \in {"init_set", "init_unlock"} => queue_lock = c
       /\ pc[c] = "exit" => (elevator = "exit" /\ queue_lock = "free")
  /\ \A c, d \in Ctx : (c # d /\ Accessing(c)) => ~Accessing(d)

\* An add holds the lock while the other context waits to dispatch.
C10_Witness ==
  \E c, d \in Ctx :
    /\ pc[c] = "add" /\ queue_lock = c
    /\ pc[d] = "spin_dispatch"
    /\ queue # <<>>

(* ---------------- specifications for the liveness claims --------------- *)

\* The locations of the requests of the liveness runs: at the head that init
\* leaves, far from it, and at the far end of the medium (where the computed
\* distance wraps round to 1).
StarveLocations == {0, SectorHalf - 1, SectorMod - 1}

\* The host as it drives one queue in normal operation: the submission path
\* attaches the policy and adds requests, the device-ready path dispatches.
NextDrain ==
  \/ HostInit("submit")
  \/ sstf_init_queue("submit")
  \/ HostReturn("submit")
  \/ \E loc \in StarveLocations : HostAdd("submit", loc)
  \/ sstf_add_request("submit")
  \/ HostUnlock("submit")
  \/ HostRun("ready")
  \/ HostDispatch("ready")
  \/ sstf_dispatch("ready")
  \/ HostUnlock("ready")

\* The same with requests that never stop arriving.
NextStarve ==
  \/ NextDrain
  \/ \E h \in Handles, loc \in StarveLocations : HostAddAgain("submit", h, loc)

\* The handlers run to their end without blocking, the lock holder lets go,
\* the device keeps asking for work, and a context spinning on queue_lock
\* gets it (the kernel's spinlocks are granted in arrival order).
DispatchFairness ==
  /\ WF_vars(sstf_add_request("submit"))
  /\ WF_vars(HostUnlock("submit"))
  /\ WF_vars(HostRun("ready"))
  /\ SF_vars(HostDispatch("ready"))
  /\ WF_vars(sstf_dispatch("ready"))
  /\ WF_vars(HostUnlock("ready"))

StarveSpec == Init /\ [][NextStarve]_vars /\ DispatchFairness

(* C11 as claimed: once add has accepted a request, it is eventually handed
   to the dispatch sink, in every execution in which dispatch keeps being
   invoked, also when other requests continue to be added. *)
C11_AcceptedEventuallyDispatched ==
  \A h \in Handles : (h \in Range(queue)) ~> (h \in Range(dispatched))

(* C11 as amended: in every execution in which dispatch keeps being invoked
   and in which, from some point on, no further request is added (and none
   is absorbed by a merge, and the queue is not torn down), every accepted
   request is eventually handed to the dispatch sink. *)
C11_DispatchedOnceAddsStop ==
  \A h \in Handles :
    \/ []<><<sstf_add_request("submit")>>_vars
    \/ (h \in Range(queue)) ~> (h \in Range(dispatched))

\* The farthest of three pending requests has been handed over last.
C11_Witness ==
  /\ Len(dispatched) = 3
  /\ \A i \in 1 .. 2 : AbsDiff(pos[dispatched[3]], 0) > AbsDiff(pos[dispatched[i]], 0)
  /\ \A c \in Ctx : pc[c] = "idle"

(* C12: draining terminates.  A dispatch call that finds the queue non-empty
   selects a pending request in its single pass over the queue, removes
   exactly that one request, and returns 1; a dispatch call that finds the
   queue empty returns 0 and changes nothing.  Hence n pending requests are
   drained by n calls and the call after them returns 0. *)
C12_DrainTerminates ==
  [][\A c \in Ctx :
       /\ (pc[c] = "dispatch" /\ pc'[c] # "dispatch") =>
            IF queue # <<>>
            THEN pc'[c] = "dsp_del" /\ rq'[c] \in Range(queue) /\ queue' = queue
            ELSE pc'[c] = "unlock" /\ ret'[c] = "0" /\ queue' = queue
                 /\ dispatched' = dispatched
       /\ (pc[c] = "dsp_del" /\ pc'[c] # "dsp_del") =>
            /\ pc'[c] = "dsp_sort"
            /\ Len(queue') = Len(queue) - 1
            /\ Range(queue') = Range(queue) \ {rq[c]}
       /\ (pc[c] = "dsp_sort" /\ pc'[c] # "dsp_sort") =>
            pc'[c] = "dsp_head" /\ queue' = queue
       /\ (pc[c] = "dsp_head" /\ pc'[c] # "dsp_head") =>
            pc'[c] = "unlock" /\ ret'[c] = "1" /\ queue' = queue
  ]_vars

\* Three requests were drained by three calls and the next call returned 0.
C12_Witness ==
  \E c \in Ctx :
    /\ pc[c] = "unlock"
    /\ ret[c] = "0"
    /\ queue = <<>>
    /\ Len(dispatched) = 3
    /\ merged = {}

(* C13: the distance that sstf_find_next_request computes for a pending
   request equals the true absolute difference between the request's
   location and head_position, whatever the two w-bit positions are. *)
C13_DistanceIsAbsoluteDifference ==
  nd = "ready" =>
    \A h \in Range(queue) :
      sstf_distance(pos[h], head_position) = AbsDiff(pos[h], head_position)

(* C14: sstf_add_request puts the new handle at the tail of the queue: the
   queue grows by exactly one, the new handle is its last entry, the
   entries already pending keep their order, and head_position is left as
   it was.  The step is taken whatever the queue holds. *)
C14_AddAppendsAtTail ==
  [][\A c \in Ctx :
       (pc[c] = "add" /\ pc'[c] # "add") =>
         /\ Len(queue') = Len(queue) + 1
         /\ Last(queue') = rq[c]
         /\ SubSeq(queue', 1, Len(queue)) = queue
         /\ head_position' = head_position
         /\ ret'[c] = "void"
  ]_vars

\* An add has just returned with another request still pending, after a
\* dispatch has moved the head away from sector 0.
C14_Witness ==
  \E c \in Ctx :
    /\ pc[c] = "unlock"
    /\ ret[c] = "void"
    /\ next[c] = NULL
    /\ Len(queue) = 2
    /\ Last(queue) = rq[c]
    /\ head_position # 0

\* sstf_add_request has linked h into the queue at some time.
Accepted(h) ==
  /\ h \in 1 .. nreq
  /\ \A c \in Ctx : ~(pc[c] = "add" /\ rq[c] = h)

\* sstf_dispatch has unlinked h from the queue at some time.
Taken(h) ==
  \/ h \in Range(dispatched)
  \/ \E c \in Ctx : pc[c] = "dsp_sort" /\ rq[c] = h

(* C15: in every reachable state a handle is linked into the queue at most
   once, and a handle is in the queue exactly when add has accepted it and
   neither dispatch nor a merge has unlinked it since. *)
C15_QueueMembership ==
  /\ NoDuplicates(queue)
  /\ \A h \in Handles :
       h \in Range(queue) <=> (Accepted(h) /\ ~Taken(h) /\ h \notin merged)

\* One request is pending, one was dispatched and one was absorbed.
C15_Witness ==
  /\ Len(queue) = 1
  /\ Len(dispatched) = 1
  /\ Cardinality(merged) = 1
  /\ Idle

(* C16: a successful sstf_init_queue binds the host queue to a state whose
   queue is empty and whose head_position is 0: the state is in that
   condition from the moment init takes the lock to bind it until init
   returns 0 to a bound queue, the queue is never bound to a state that is
   not initialised, and a dispatch that starts before any request was
   handed over measures from sector 0. *)
C16_InitLeavesFreshState ==
  /\ \A c \in Ctx :
       pc[c] \in {"init_lock", "init_set", "init_unlock"} =>
         nd = "ready" /\ list_empty(queue) /\ head_position = 0
  /\ \A c \in Ctx : (pc[c] = "return" /\ ret[c] = "0") => elevator = "sstf"
  /\ elevator = "sstf" => nd = "ready"
  /\ \A c \in Ctx :
       (pc[c] = "dispatch" /\ dispatched = <<>>) => head_position = 0

\* The first dispatch after init is about to scan a queue of pending requests.
C16_Witness ==
  \E c \in Ctx :
    /\ pc[c] = "dispatch"
    /\ dispatched = <<>>
    /\ Len(queue) >= 2
    /\ elevator = "sstf"

(* C17: when either allocation of sstf_init_queue fails, init returns
   -ENOMEM, the host queue's elevator is not written, and nothing that init
   allocated before the failure is still held. *)
C17_InitFailureReleases ==
  \A c \in Ctx :
    (pc[c] = "return" /\ ret[c] = "-ENOMEM") =>
      elevator = "none" /\ eq = "none" /\ nd = "none"

\* Init has failed and is about to return the error to the host.
C17_Witness ==
  \E c \in Ctx :
    /\ pc[c] = "return"
    /\ ret[c] = "-ENOMEM"
    /\ queue_lock = "free"

(* C18: within a successful dispatch head_position is set to the
   chosen request's location before the request is handed to the dispatch
   sink, so at the moment the sink has received the request head_position
   already equals that request's location. *)
C18_HeadSetBeforeHandOver ==
  \A c \in Ctx : Handed(c) => head_position = pos[rq[c]]

\* A context is inside sstf_add_request, sstf_merged_requests or
\* sstf_dispatch.
InHandler(c) ==
  pc[c] \in {"add", "merge", "dispatch", "dsp_del", "dsp_sort", "dsp_head"}

(* C19: conservation of requests.  Whenever no add, dispatch or merge call
   is in progress, every handle that add has accepted is in exactly one of
   three places: pending in the queue, handed to the dispatch sink (once),
   or unlinked by a merge; the number of adds equals pending + dispatched +
   absorbed, and no handle that a merge absorbed was handed to the sink. *)
C19_Conservation ==
  (\A c \in Ctx : ~InHandler(c)) =>
    /\ \A h \in 1 .. nreq :
         /\ h \in Range(queue) \cup Range(dispatched) \cup merged
         /\ ~(h \in Range(queue) /\ h \in Range(dispatched))
         /\ ~(h \in Range(queue) /\ h \in merged)
    /\ NoDuplicates(queue)
    /\ NoDuplicates(dispatched)
    /\ merged \cap Range(dispatched) = {}
    /\ nreq = Len(queue) + Len(dispatched) + Cardinality(merged)

\* Three requests were added; two were dispatched and one was absorbed.
C19_Witness ==
  /\ Idle
  /\ nreq = 3
  /\ queue = <<>>
  /\ Len(dispatched) = 2
  /\ Cardinality(merged) = 1

(* C20: the all-ones value that marks min_distance as unset is never the
   distance computed for a pending request, so for every non-empty queue
   sstf_find_next_request returns a pending request, and the request it
   returns is the first one in queue order among those at the least
   computed distance: a later entry replaces the candidate only when its
   distance is strictly smaller. *)
C20_SentinelNeverADistance ==
  (nd = "ready" /\ queue # <<>>) =>
    LET found == sstf_find_next_request(queue, head_position)
        d(h) == sstf_distance(pos[h], head_position)
    IN  /\ \A h \in Range(queue) : d(h) # MinDistanceUnset
        /\ found \in Range(queue)
        /\ \A i \in 1 .. Len(queue) :
             /\ d(queue[i]) >= d(found)
             /\ i < IndexOf(queue, found) => d(queue[i]) > d(found)

\* Two pending requests at different sectors are at the same least computed
\* distance from a head that has moved; the scan returns the earlier one.
C20_Witness ==
  /\ nd = "ready"
  /\ Len(queue) >= 2
  /\ head_position # 0
  /\ \E i, j \in 1 .. Len(queue) :
       /\ i < j
       /\ pos[queue[i]] # pos[queue[j]]
       /\ sstf_distance(pos[queue[i]], head_position)
            = sstf_distance(pos[queue[j]], head_position)
       /\ queue[i] = sstf_find_next_request(queue, head_position)

====
